---- MODULE Spec2Model ----
(***************************************************************************)
(* TwincatAds: a Tango device that exposes TwinCAT PLC symbols as dynamic  *)
(* attributes (src/src/TwincatAds/TwincatAds.py).                          *)
(*                                                                         *)
(* Two devices of the class run in one device server against one PLC.      *)
(* The class attribute `symbols` is one dictionary for the whole process:  *)
(* self.symbols[label] = symbol writes into it from every device.          *)
(*                                                                         *)
(* The device server constructs each device (init_device), then calls      *)
(* initialize_dynamic_attributes of each, one hook at a time, and serves   *)
(* clients once every device is through.  The Init command runs            *)
(* delete_device and init_device, and not initialize_dynamic_attributes.   *)
(* At shutdown delete_device runs on each device.                          *)
(*                                                                         *)
(* A symbol handle belongs to the connection object it was resolved        *)
(* through: init_device makes a new connection object each time, and no    *)
(* read or write through a closed connection reaches the PLC.              *)
(*                                                                         *)
(* A manifest line is a sequence of tokens: words, "," and " ".            *)
(***************************************************************************)
EXTENDS Integers, Sequences, FiniteSets, TLC

VARIABLES manifest,     \* scalar_symbols property of each device
          plc,          \* self.plc of each device: connection object and whether it is open
          state,        \* Tango device state of each device
          symbols,      \* TwincatAds.symbols: label -> symbol handle (class attribute)
          attrs,        \* dynamic attributes registered on each device
          pc,           \* lifecycle position of each device
          idx,          \* position of the for loop of initialize_dynamic_attributes
          warned,       \* manifest lines for which log_warning was written
          buildResult,  \* how initialize_dynamic_attributes ended on each device
          initResult,   \* how the latest init_device ended on each device
          opens,        \* number of plc.open() calls that opened a connection
          closes,       \* number of plc.close() calls that closed an open connection
          inits,        \* number of Init commands received
          mem,          \* PLC memory of the scalar symbols
          result,       \* outcome of the latest client call or lifecycle hook
          lastWritten   \* per attribute: value and symbol of its latest write, while not overwritten

vars == <<manifest, plc, state, symbols, attrs, pc, idx, warned, buildResult,
          initResult, opens, closes, inits, mem, result, lastWritten>>

-----------------------------------------------------------------------------
(* Bounds of the model *)

\* Init commands the clients send to the devices of the server
MaxInits == 1
\* declared length of the PLC array MAIN.arr
ArrayLen == 2

Devices == {1, 2}
\* the scalar symbols are BOOL variables of the PLC program
Values == BOOLEAN
Counts == (-1)..ArrayLen

-----------------------------------------------------------------------------
(* The PLC as seen through pyads *)

ScalarNames == {"MAIN.a", "MAIN.b"}
ArrayNames == {"MAIN.arr"}
PlcSymbols == ScalarNames \cup ArrayNames

\* symbol.array_size
array_size(name) == IF name \in ArrayNames THEN ArrayLen ELSE 1

\* content of MAIN.arr in PLC memory order
ArrayContent == [i \in 1..ArrayLen |-> 10 * i]

\* type(value) of a value read from the symbol
PlcType(name) == IF name \in ScalarNames THEN "bool" ELSE "list"

\* a handle works while the connection object it was resolved through is open
Live(h) == h.dev \in Devices /\ plc[h.dev].gen = h.gen /\ plc[h.dev].open

\* symbol.read()
SymbolRead(h) == IF h.name \in ScalarNames THEN mem[h.name] ELSE ArrayContent

-----------------------------------------------------------------------------
(* Manifest lines and their parsing *)

Comma == ","
Space == " "

Descr(n, l, a) == <<n, Comma, Space, l, Comma, Space, a>>

\* line.split(',')
RECURSIVE split(_)
split(line) ==
    IF \A i \in 1..Len(line) : line[i] # Comma
    THEN <<line>>
    ELSE LET i == CHOOSE k \in 1..Len(line) :
                      line[k] = Comma /\ \A j \in 1..(k - 1) : line[j] # Comma
         IN <<SubSeq(line, 1, i - 1)>> \o split(SubSeq(line, i + 1, Len(line)))

RECURSIVE lstrip(_)
lstrip(s) == IF s # <<>> /\ Head(s) = Space THEN lstrip(Tail(s)) ELSE s

RECURSIVE rstrip(_)
rstrip(s) == IF s # <<>> /\ s[Len(s)] = Space THEN rstrip(SubSeq(s, 1, Len(s) - 1)) ELSE s

RECURSIVE Join(_)
Join(s) == IF s = <<>> THEN "" ELSE Head(s) \o Join(Tail(s))

\* s.strip()
strip(s) == Join(rstrip(lstrip(s)))

\* [s.strip() for s in line.split(',')]
Fields(line) == LET f == split(line) IN [i \in 1..Len(f) |-> strip(f[i])]

M1 == { << Descr("MAIN.a", "x", "rw"), Descr("MAIN.b", "y", "ro") >>,
        << Descr("MAIN.arr", "x", "ro"), Descr("MAIN.b", "y", "ro") >>,
        << Descr("MAIN.a", "x", "rw"), Descr("MAIN.arr", "x", "ro") >>,
        << Descr("MAIN.a", "x", "rw"), Descr("MAIN.zz", "y", "rw"), Descr("MAIN.b", "y", "ro") >>,
        << Descr("MAIN.b", "y", "rw"), <<"MAIN.a", Comma, "x">> >>,
        << Descr("MAIN.a", "y", "RW"), <<Space, "MAIN.b", Space, Comma, "x", Comma, "rw", Space>> >>,
        << Descr("MAIN.a", "x", "rw"), Descr("MAIN.b", "x", "ro") >> }

M2 == { << Descr("MAIN.b", "x", "rw") >>,
        << Descr("MAIN.a", "y", "ro") >> }

Manifests(d) == IF d = 1 THEN M1 ELSE M2

-----------------------------------------------------------------------------
NoHandle == [dev |-> 0, gen |-> 0, name |-> ""]
NoResult == [op |-> "none", dev |-> 0, attr |-> "", status |-> "", value |-> <<>>,
             handle |-> NoHandle, count |-> 0]

Init ==
    /\ manifest \in [Devices -> M1 \cup M2]
    /\ \A d \in Devices : manifest[d] \in Manifests(d)
    /\ plc = [d \in Devices |-> [gen |-> 0, open |-> FALSE]]
    /\ state = [d \in Devices |-> "UNKNOWN"]
    /\ symbols = <<>>
    /\ attrs = [d \in Devices |-> <<>>]
    /\ pc = [d \in Devices |-> "Uninitialized"]
    /\ idx = [d \in Devices |-> 0]
    /\ warned = [d \in Devices |-> {}]
    /\ buildResult = [d \in Devices |-> "none"]
    /\ initResult = [d \in Devices |-> "none"]
    /\ opens = [d \in Devices |-> 0]
    /\ closes = [d \in Devices |-> 0]
    /\ inits = [d \in Devices |-> 0]
    /\ mem = [n \in ScalarNames |-> FALSE]
    /\ result = NoResult
    /\ lastWritten = [d \in Devices |-> <<>>]

Aborted == \E d \in Devices : pc[d] = "Aborted"
Building == \E d \in Devices : pc[d] = "BuildingAttributes"
Serving == \A d \in Devices : pc[d] = "Operational"
InitCommands == inits[1] + inits[2]

-----------------------------------------------------------------------------
(* init_device and delete_device *)

InitOutcomes == {"ok", "open_failed", "read_state_failed"}

\* init_device: self.plc = pyads.Connection(...); self.plc.open(); read_state();
\* set_state(DevState.ON). The connection object and the state it leaves behind
\* when it ends as o: an exception of open() or read_state() ends it there.
init_device_state_first(p, st, o) ==
    [plc |-> [gen |-> p.gen + 1, open |-> (o # "open_failed")], state |-> "ON"]

init_device(p, st, o) ==
    [plc |-> [gen |-> p.gen + 1, open |-> (o # "open_failed")],
     state |-> IF o = "ok" THEN "ON" ELSE st]

\* delete_device: self.plc.close()
delete_device_no_close(p) == p

delete_device(p) == [p EXCEPT !.open = FALSE]

HookResult(op, d, status) == [NoResult EXCEPT !.op = op, !.dev = d, !.status = status]

\* the server constructs the device: init_device runs once; a failure ends the server
StartDevice(d, o) ==
    /\ ~Aborted /\ ~Building
    /\ pc[d] = "Uninitialized"
    /\ LET new == init_device(plc[d], state[d], o)
       IN /\ plc' = [plc EXCEPT ![d] = new.plc]
          /\ state' = [state EXCEPT ![d] = new.state]
          /\ opens' = [opens EXCEPT ![d] = IF new.plc.open THEN @ + 1 ELSE @]
    /\ initResult' = [initResult EXCEPT ![d] = o]
    /\ pc' = [pc EXCEPT ![d] = IF o = "ok" THEN "Initialized" ELSE "Aborted"]
    /\ result' = HookResult("init_device", d, o)
    /\ UNCHANGED <<manifest, symbols, attrs, idx, warned, buildResult, closes, inits,
                   mem, lastWritten>>

\* the Init command: delete_device, then init_device; a failure is returned to the client
InitCommand(d, o) ==
    /\ Serving
    /\ InitCommands < MaxInits
    /\ LET closed == delete_device(plc[d])
           new == init_device(closed, state[d], o)
       IN /\ closes' = [closes EXCEPT ![d] = IF plc[d].open /\ ~closed.open THEN @ + 1 ELSE @]
          /\ plc' = [plc EXCEPT ![d] = new.plc]
          /\ state' = [state EXCEPT ![d] = new.state]
          /\ opens' = [opens EXCEPT ![d] = IF new.plc.open THEN @ + 1 ELSE @]
    /\ initResult' = [initResult EXCEPT ![d] = o]
    /\ inits' = [inits EXCEPT ![d] = @ + 1]
    /\ result' = HookResult("Init", d, o)
    /\ UNCHANGED <<manifest, symbols, attrs, pc, idx, warned, buildResult, mem, lastWritten>>

\* the server shuts down: delete_device runs on each device
ShutdownDevice(d) ==
    /\ pc[d] = "Operational"
    /\ Serving \/ \E e \in Devices : pc[e] = "Closed"
    /\ LET closed == delete_device(plc[d])
       IN /\ closes' = [closes EXCEPT ![d] = IF plc[d].open /\ ~closed.open THEN @ + 1 ELSE @]
          /\ plc' = [plc EXCEPT ![d] = closed]
    /\ pc' = [pc EXCEPT ![d] = "Closed"]
    /\ result' = HookResult("delete_device", d, "ok")
    /\ UNCHANGED <<manifest, state, symbols, attrs, idx, warned, buildResult, initResult,
                   opens, inits, mem, lastWritten>>

-----------------------------------------------------------------------------
(* initialize_dynamic_attributes *)

\* access=AttrWriteType.READ_WRITE if access == "rw" else AttrWriteType.READ
AccessType_unless_ro(access) == IF access # "ro" THEN "READ_WRITE" ELSE "READ"

AccessType(access) == IF access = "rw" THEN "READ_WRITE" ELSE "READ"

\* self.symbols[label] = symbol
Recorded_by_name(tbl, name, label, h) == (name :> h) @@ tbl

Recorded(tbl, name, label, h) == (label :> h) @@ tbl

\* the loop after a symbol that is not a scalar: continue
AfterArray_break == "break"

AfterArray == "continue"

\* self.plc.get_symbol(name) of a name the PLC does not know raises
AfterUnknown_skip == "continue"

AfterUnknown == "raise"

SameDefinition(x, y) == x.access = y.access /\ x.dtype = y.dtype

\* self.add_attribute(attr): a new name is registered; a name registered with the
\* same definition stays; for a name registered with another definition the
\* framework, by dup, takes the new definition ("replace") or raises ("raise")
add_attribute(cur, label, attr, dup) ==
    IF label \notin DOMAIN cur
    THEN [attrs |-> (label :> attr) @@ cur, raised |-> FALSE]
    ELSE IF SameDefinition(cur[label], attr)
    THEN [attrs |-> cur, raised |-> FALSE]
    ELSE IF dup = "raise"
    THEN [attrs |-> cur, raised |-> TRUE]
    ELSE [attrs |-> (label :> attr) @@ cur, raised |-> FALSE]

\* one iteration of the for loop of initialize_dynamic_attributes: the symbol
\* table, the device's attributes and warnings after it, and how it ends:
\* "continue" with the next line, "break" out of the loop, or "raise"
ProcessLine(d, i, dup) ==
    LET f == Fields(manifest[d][i])
        same == [symbols |-> symbols, attrs |-> attrs[d], warned |-> warned[d]]
    IN IF Len(f) # 3
       THEN same @@ [ctl |-> "raise"]
       ELSE LET name == f[1]
                label == f[2]
                access == f[3]
                h == [dev |-> d, gen |-> plc[d].gen, name |-> name]
                tbl == Recorded(symbols, name, label, h)
            IN IF name \notin PlcSymbols \/ ~plc[d].open
               THEN same @@ [ctl |-> AfterUnknown]
               ELSE IF array_size(name) > 1
               THEN [same EXCEPT !.symbols = tbl, !.warned = @ \cup {i}] @@ [ctl |-> AfterArray]
               ELSE LET attr == [access |-> AccessType(access), dtype |-> PlcType(name),
                                 line |-> i]
                        added == add_attribute(attrs[d], label, attr, dup)
                    IN [same EXCEPT !.symbols = tbl, !.attrs = added.attrs]
                       @@ [ctl |-> IF added.raised THEN "raise" ELSE "continue"]

\* the server calls initialize_dynamic_attributes of a constructed device
BeginBuild(d) ==
    /\ ~Aborted /\ ~Building
    /\ pc[d] = "Initialized"
    /\ pc' = [pc EXCEPT ![d] = "BuildingAttributes"]
    /\ idx' = [idx EXCEPT ![d] = 1]
    /\ result' = HookResult("initialize_dynamic_attributes", d, "running")
    /\ UNCHANGED <<manifest, plc, state, symbols, attrs, warned, buildResult, initResult,
                   opens, closes, inits, mem, lastWritten>>

\* a line is processed and the loop goes on (or is left by break)
BuildLine(d, dup) ==
    /\ ~Aborted
    /\ pc[d] = "BuildingAttributes"
    /\ idx[d] <= Len(manifest[d])
    /\ LET out == ProcessLine(d, idx[d], dup)
       IN /\ out.ctl # "raise"
          /\ symbols' = out.symbols
          /\ attrs' = [attrs EXCEPT ![d] = out.attrs]
          /\ warned' = [warned EXCEPT ![d] = out.warned]
          /\ idx' = [idx EXCEPT ![d] = IF out.ctl = "break" THEN Len(manifest[d]) + 1 ELSE @ + 1]
    /\ UNCHANGED <<manifest, plc, state, pc, buildResult, initResult, opens, closes, inits,
                   mem, result, lastWritten>>

\* a line raises: the exception leaves initialize_dynamic_attributes; the server
\* either logs it and serves the device as it is, or ends
BuildRaise(d, dup, after) ==
    /\ ~Aborted
    /\ pc[d] = "BuildingAttributes"
    /\ idx[d] <= Len(manifest[d])
    /\ LET out == ProcessLine(d, idx[d], dup)
       IN /\ out.ctl = "raise"
          /\ symbols' = out.symbols
          /\ attrs' = [attrs EXCEPT ![d] = out.attrs]
          /\ warned' = [warned EXCEPT ![d] = out.warned]
    /\ buildResult' = [buildResult EXCEPT ![d] = "failed"]
    /\ pc' = [pc EXCEPT ![d] = after]
    /\ result' = HookResult("initialize_dynamic_attributes", d, "raised")
    /\ UNCHANGED <<manifest, plc, state, idx, initResult, opens, closes, inits, mem,
                   lastWritten>>

\* the loop is over: initialize_dynamic_attributes returns
BuildReturn(d) ==
    /\ ~Aborted
    /\ pc[d] = "BuildingAttributes"
    /\ idx[d] > Len(manifest[d])
    /\ buildResult' = [buildResult EXCEPT ![d] = "ok"]
    /\ pc' = [pc EXCEPT ![d] = "Operational"]
    /\ result' = HookResult("initialize_dynamic_attributes", d, "ok")
    /\ UNCHANGED <<manifest, plc, state, symbols, attrs, idx, warned, initResult, opens,
                   closes, inits, mem, lastWritten>>

-----------------------------------------------------------------------------
(* Client calls *)

\* generic_read: name = attr.get_name(); return self.symbols[name].read()
generic_read(d, a) ==
    LET r == [NoResult EXCEPT !.op = "read", !.dev = d, !.attr = a]
    IN IF a \notin DOMAIN symbols
       THEN [r EXCEPT !.status = "KeyError"]
       ELSE IF ~Live(symbols[a])
       THEN [r EXCEPT !.status = "failed", !.handle = symbols[a]]
       ELSE [r EXCEPT !.status = "ok", !.value = SymbolRead(symbols[a]), !.handle = symbols[a]]

\* generic_write: self.symbols[name].write(value); the symbol written, if any
generic_write_own(d, a) ==
    LET own == Fields(manifest[d][attrs[d][a].line])[1]
    IN [status |-> "ok", handle |-> [dev |-> d, gen |-> plc[d].gen, name |-> own]]

generic_write(d, a) ==
    IF a \notin DOMAIN symbols
    THEN [status |-> "KeyError", handle |-> NoHandle]
    ELSE IF ~Live(symbols[a]) \/ symbols[a].name \notin ScalarNames
    THEN [status |-> "failed", handle |-> symbols[a]]
    ELSE [status |-> "ok", handle |-> symbols[a]]

\* the writes of other attributes that a write to symbol n overwrites
Forget(lw, n) == [a \in {b \in DOMAIN lw : lw[b].sym # n} |-> lw[a]]

\* a client reads a dynamic attribute: the framework calls fget
ReadAttribute(d, a) ==
    /\ Serving
    /\ a \in DOMAIN attrs[d]
    /\ result' = generic_read(d, a)
    /\ UNCHANGED <<manifest, plc, state, symbols, attrs, pc, idx, warned, buildResult,
                   initResult, opens, closes, inits, mem, lastWritten>>

\* a client writes a dynamic attribute: the framework refuses a READ attribute
\* and calls fset of a READ_WRITE one
WriteAttribute(d, a, v) ==
    /\ Serving
    /\ a \in DOMAIN attrs[d]
    /\ LET r == [NoResult EXCEPT !.op = "write", !.dev = d, !.attr = a, !.value = v]
           t == generic_write(d, a)
       IN IF attrs[d][a].access = "READ"
          THEN /\ result' = [r EXCEPT !.status = "rejected"]
               /\ UNCHANGED <<mem, lastWritten>>
          ELSE /\ result' = [r EXCEPT !.status = t.status, !.handle = t.handle]
               /\ IF t.status = "ok"
                  THEN /\ mem' = [mem EXCEPT ![t.handle.name] = v]
                       /\ lastWritten' =
                            [e \in Devices |->
                               IF e = d
                               THEN (a :> [val |-> v, sym |-> t.handle.name])
                                    @@ Forget(lastWritten[e], t.handle.name)
                               ELSE Forget(lastWritten[e], t.handle.name)]
                  ELSE UNCHANGED <<mem, lastWritten>>
    /\ UNCHANGED <<manifest, plc, state, symbols, attrs, pc, idx, warned, buildResult,
                   initResult, opens, closes, inits>>

\* the PLC program or another ADS client changes a symbol
ExternalWrite(n, v) ==
    /\ ~Aborted
    /\ mem[n] # v
    /\ mem' = [mem EXCEPT ![n] = v]
    /\ lastWritten' = [e \in Devices |-> Forget(lastWritten[e], n)]
    /\ UNCHANGED <<manifest, plc, state, symbols, attrs, pc, idx, warned, buildResult,
                   initResult, opens, closes, inits, result>>

CommandNames == {"MAIN.arr", "MAIN.zz"}

\* what the PLC holds under a name, as a sequence of REAL elements
Stored(name) == IF name \in ScalarNames THEN <<mem[name]>> ELSE ArrayContent

\* values = self.plc.read_by_name(name, npts * pyads.PLCTYPE_REAL)
read_float_array(d, npts, name) ==
    LET r == [NoResult EXCEPT !.op = "read_float_array", !.dev = d, !.attr = name,
                              !.count = npts]
    IN IF npts < 0
       THEN [r EXCEPT !.status = "ValueError"]
       ELSE IF ~plc[d].open \/ name \notin PlcSymbols \/ npts > array_size(name)
       THEN [r EXCEPT !.status = "failed"]
       ELSE [r EXCEPT !.status = "ok", !.value = SubSeq(Stored(name), 1, npts)]

\* a client runs the command read_float_array
ReadFloatArray(d, npts, name) ==
    /\ Serving
    /\ result' = read_float_array(d, npts, name)
    /\ UNCHANGED <<manifest, plc, state, symbols, attrs, pc, idx, warned, buildResult,
                   initResult, opens, closes, inits, mem, lastWritten>>

-----------------------------------------------------------------------------
DupChoices == {"replace", "raise"}
Labels == {"x", "y"}

Next ==
    \/ \E d \in Devices, o \in InitOutcomes : StartDevice(d, o)
    \/ \E d \in Devices : BeginBuild(d)
    \/ \E d \in Devices, dup \in DupChoices : BuildLine(d, dup)
    \/ \E d \in Devices, dup \in DupChoices, after \in {"Operational", "Aborted"} :
           BuildRaise(d, dup, after)
    \/ \E d \in Devices : BuildReturn(d)
    \/ \E d \in Devices, a \in Labels : ReadAttribute(d, a)
    \/ \E d \in Devices, a \in Labels, v \in Values : WriteAttribute(d, a, v)
    \/ \E n \in ScalarNames, v \in Values : ExternalWrite(n, v)
    \/ \E d \in Devices, c \in Counts, n \in CommandNames : ReadFloatArray(d, c, n)
    \/ \E d \in Devices, o \in InitOutcomes : InitCommand(d, o)
    \/ \E d \in Devices : ShutdownDevice(d)

Spec == Init /\ [][Next]_vars

-----------------------------------------------------------------------------
(* What a manifest line declares, read off the line itself *)

Commas(line) == {i \in 1..Len(line) : line[i] = Comma}
WellFormed(line) == Cardinality(Commas(line)) = 2
FirstComma(line) == CHOOSE i \in Commas(line) : \A j \in Commas(line) : i <= j
LastComma(line) == CHOOSE i \in Commas(line) : \A j \in Commas(line) : j <= i
NoBlanks(s) == Join(SelectSeq(s, LAMBDA t : t # Space))
DeclaredName(line) == NoBlanks(SubSeq(line, 1, FirstComma(line) - 1))
DeclaredLabel(line) == NoBlanks(SubSeq(line, FirstComma(line) + 1, LastComma(line) - 1))
DeclaredAccess(line) == NoBlanks(SubSeq(line, LastComma(line) + 1, Len(line)))
FatalLine(line) == ~WellFormed(line) \/ DeclaredName(line) \notin PlcSymbols
ArrayLine(line) == WellFormed(line) /\ DeclaredName(line) \in ArrayNames
ScalarLine(line) == WellFormed(line) /\ DeclaredName(line) \in ScalarNames

Lines(d) == 1..Len(manifest[d])
ClientStep == result' # result /\ result'.op \in {"read", "write", "read_float_array"}
BuildVars(d) == <<symbols, attrs[d], idx[d], pc[d], warned[d], buildResult[d]>>

-----------------------------------------------------------------------------
(* C1 *)

C1_Declared ==
    \A d \in Devices : \A a \in DOMAIN attrs[d] :
        attrs[d][a].access \in {"READ", "READ_WRITE"}
        /\ (attrs[d][a].access = "READ_WRITE"
              <=> DeclaredAccess(manifest[d][attrs[d][a].line]) = "rw")

C1_Step ==
    /\ attrs' # attrs => C1_Declared'
    /\ (result' # result /\ result'.op = "read") => result'.status # "rejected"
    /\ (result' # result /\ result'.op = "write") =>
          LET rw == DeclaredAccess(manifest[result'.dev][attrs[result'.dev][result'.attr].line]) = "rw"
          IN /\ (result'.status = "rejected") <=> ~rw
             /\ ~rw => (mem' = mem /\ result'.handle = NoHandle)

\* C1: every registered attribute can be read, and it can be written exactly when
\* the trimmed access field of the line that registered it is "rw"; a write to any
\* other attribute is rejected and leaves the PLC memory as it is.
C1_WritableIffRw == [][C1_Step]_vars

C1_Witness ==
    /\ result.op = "write" /\ result.status = "rejected"
    /\ DeclaredAccess(manifest[result.dev][attrs[result.dev][result.attr].line]) = "RW"
    /\ \E a \in DOMAIN attrs[result.dev] : attrs[result.dev][a].access = "READ_WRITE"

-----------------------------------------------------------------------------
(* C2 *)

C2_RoundTrip ==
    (result.op = "read" /\ result.status = "ok"
        /\ result.attr \in DOMAIN lastWritten[result.dev])
    => result.value = lastWritten[result.dev][result.attr].val

C2_Step ==
    /\ C2_RoundTrip'
    /\ (result' # result /\ result'.op = "read" /\ result'.status = "ok"
          /\ result'.handle.name \in ScalarNames)
       => result'.value = mem'[result'.handle.name]

\* C2: a read of an attribute returns the value of the latest write through that
\* attribute as long as nothing else wrote the PLC symbol in between, and every
\* read returns what the PLC holds at that moment.
C2_WriteThenRead == [][C2_Step]_vars

C2_Witness ==
    /\ result.op = "read" /\ result.status = "ok"
    /\ result.attr \in DOMAIN lastWritten[result.dev]
    /\ result.value = TRUE

-----------------------------------------------------------------------------
(* C3 *)

C3_Built ==
    \A d \in Devices :
        /\ \A a \in DOMAIN attrs[d] : ~ArrayLine(manifest[d][attrs[d][a].line])
        /\ buildResult[d] = "ok" =>
              \A i \in Lines(d) :
                  /\ ScalarLine(manifest[d][i]) => DeclaredLabel(manifest[d][i]) \in DOMAIN attrs[d]
                  /\ ArrayLine(manifest[d][i]) => i \in warned[d]

C3_Step ==
    /\ <<attrs, warned, buildResult>>' # <<attrs, warned, buildResult>> => C3_Built'
    /\ \A d \in Devices :
          (/\ pc[d] = "BuildingAttributes"
           /\ idx[d] \in Lines(d)
           /\ ArrayLine(manifest[d][idx[d]])
           /\ BuildVars(d)' # BuildVars(d))
          => /\ attrs'[d] = attrs[d]
             /\ warned'[d] = warned[d] \cup {idx[d]}
             /\ idx'[d] = idx[d] + 1
             /\ pc'[d] = "BuildingAttributes"
             /\ buildResult'[d] = buildResult[d]

\* C3: a line whose symbol is an array registers no attribute, writes a warning,
\* raises nothing, and the loop goes on with the next line, so that a construction
\* that returns has registered every scalar line's attribute.
C3_ArraySkipped == [][C3_Step]_vars

C3_Witness ==
    \E d \in Devices :
        /\ buildResult[d] = "ok"
        /\ \E i \in Lines(d), j \in Lines(d) :
              /\ i < j /\ i \in warned[d]
              /\ ScalarLine(manifest[d][j])
              /\ DeclaredLabel(manifest[d][j]) \in DOMAIN attrs[d]

-----------------------------------------------------------------------------
(* C4 *)

\* C4 as claimed: a failed construction leaves no attribute registered.
C4_NoPartialSuccess ==
    \A d \in Devices : buildResult[d] = "failed" => DOMAIN attrs[d] = {}

\* C4 as amended: construction never gets past a fatal line; when it fails at a
\* line, no attribute is registered for that line or a later one, and the
\* attributes of the scalar lines before it stay registered.
C4_StopsAtFatalLine ==
    \A d \in Devices :
        /\ \A k \in Lines(d) : k < idx[d] => ~FatalLine(manifest[d][k])
        /\ (pc[d] = "Operational" /\ \E k \in Lines(d) : FatalLine(manifest[d][k]))
              => buildResult[d] = "failed"
        /\ buildResult[d] = "failed" =>
              /\ idx[d] \in Lines(d)
              /\ \A a \in DOMAIN attrs[d] : attrs[d][a].line < idx[d]
              /\ \A k \in Lines(d) :
                    k < idx[d] /\ ScalarLine(manifest[d][k])
                    => DeclaredLabel(manifest[d][k]) \in DOMAIN attrs[d]

C4_Witness ==
    \E d \in Devices :
        /\ buildResult[d] = "failed"
        /\ FatalLine(manifest[d][idx[d]])
        /\ DOMAIN attrs[d] # {}

-----------------------------------------------------------------------------
(* C5 *)

\* C5 as claimed: on an open connection read_float_array of the array returns
\* exactly count elements for a count >= 0 and the whole array for a negative count.
C5_CountOrWholeArray ==
    (result.op = "read_float_array" /\ result.attr \in ArrayNames /\ plc[result.dev].open)
    => /\ result.status = "ok"
       /\ result.count >= 0 => result.value = SubSeq(ArrayContent, 1, result.count)
       /\ result.count < 0 => result.value = ArrayContent

-----------------------------------------------------------------------------
(* C6 *)

\* C6 as claimed: a connection is opened once and closed once, and a closed
\* connection stays closed.
C6_OpenedOnceClosedOnce ==
    \A d \in Devices :
        /\ opens[d] <= 1
        /\ closes[d] <= 1
        /\ closes[d] >= 1 => ~plc[d].open

Rank(p) ==
    CASE p = "Uninitialized" -> 0
      [] p = "Initialized" -> 1
      [] p = "BuildingAttributes" -> 2
      [] p = "Operational" -> 3
      [] OTHER -> 4

C6_Alternate ==
    \A d \in Devices :
        /\ closes[d] <= opens[d] /\ opens[d] <= closes[d] + 1
        /\ plc[d].open <=> opens[d] = closes[d] + 1
        /\ opens[d] <= 1 + inits[d]
        /\ closes[d] <= 1 + inits[d]
        /\ pc[d] = "Closed" => ~plc[d].open
        /\ pc[d] \in {"Initialized", "BuildingAttributes"} => opens[d] = 1 /\ closes[d] = 0

C6_Step ==
    /\ C6_Alternate'
    /\ \A d \in Devices :
          /\ Rank(pc'[d]) >= Rank(pc[d])
          /\ opens'[d] >= opens[d] /\ closes'[d] >= closes[d]
          /\ inits'[d] = inits[d] =>
                opens'[d] + closes'[d] <= opens[d] + closes[d] + 1

\* C6 as amended: opens and closes of a device's connection alternate, so at most
\* one connection is open; without an Init command the connection is opened at
\* most once and closed at most once, each Init command closes it and opens a new
\* one, and the lifecycle position never moves backwards.
C6_OpenCloseAlternate == [][C6_Step]_vars

C6_Witness ==
    \E d \in Devices :
        pc[d] = "Closed" /\ inits[d] >= 1 /\ opens[d] >= 2 /\ closes[d] = opens[d]

-----------------------------------------------------------------------------
(* C7 *)

C7_Started ==
    \A d \in Devices :
        /\ state[d] = "ON" => opens[d] >= 1
        /\ pc[d] \in {"Initialized", "BuildingAttributes"} =>
              plc[d].open /\ state[d] = "ON" /\ initResult[d] = "ok"
        /\ (initResult[d] # "ok" /\ inits[d] = 0) =>
              /\ state[d] # "ON"
              /\ DOMAIN attrs[d] = {}
              /\ pc[d] \in {"Uninitialized", "Aborted"}

C7_Step ==
    /\ C7_Started'
    /\ \A d \in Devices :
          /\ (state'[d] = "ON" /\ state[d] # "ON") =>
                plc'[d].open /\ opens'[d] = opens[d] + 1 /\ initResult'[d] = "ok"
          /\ (plc'[d].gen # plc[d].gen /\ initResult'[d] = "open_failed") =>
                /\ state'[d] = state[d]
                /\ ~plc'[d].open
                /\ result'.status = "open_failed"
                /\ attrs' = attrs /\ symbols' = symbols

\* C7: the state becomes ON only in an init_device whose open() and read_state()
\* returned; an init_device whose open() fails hands the failure to its caller,
\* leaves the state as it was, and no attribute construction follows it.
C7_OnOnlyAfterOpen == [][C7_Step]_vars

C7_Witness ==
    /\ \E d \in Devices : state[d] = "ON" /\ plc[d].open
    /\ \E e \in Devices : initResult[e] = "open_failed" /\ state[e] # "ON"

-----------------------------------------------------------------------------
(* C8 *)

C8_Entries ==
    /\ \A d \in Devices : DOMAIN attrs[d] \subseteq DOMAIN symbols
    /\ result.status # "KeyError"

C8_Step ==
    /\ C8_Entries'
    /\ DOMAIN symbols \subseteq DOMAIN symbols'
    /\ ClientStep => symbols' = symbols

\* C8: every registered attribute has its entry in the symbol table, so no read
\* or write fails for a missing key; entries are never removed, and the client
\* calls leave the table as it is.
C8_EveryAttributeHasEntry == [][C8_Step]_vars

C8_Witness ==
    /\ result.op = "read" /\ result.status = "ok"
    /\ result.handle = symbols[result.attr]
    /\ \E d \in Devices : inits[d] > 0

-----------------------------------------------------------------------------
(* C9 *)

\* C9 as claimed: after construction the labels of the symbol table are the
\* names of the registered attributes, and every entry is a scalar symbol.
C9_TableMatchesAttributes ==
    Serving =>
        /\ DOMAIN symbols = UNION {DOMAIN attrs[d] : d \in Devices}
        /\ \A l \in DOMAIN symbols : array_size(symbols[l].name) <= 1

-----------------------------------------------------------------------------
(* C10 *)

\* C10 as claimed: a read or write of an attribute of a device goes to a handle
\* that this device resolved through its own connection.
C10_OwnHandle ==
    (result.op \in {"read", "write"} /\ result.handle # NoHandle)
    => result.handle.dev = result.dev

====
